---- MODULE Spec2Model ----
(***************************************************************************)
(* Model of geoid_toolkit: read_ICGEM_harmonics (the gravity-model reader) *)
(* and legendre_polynomials (the Legendre recurrence).                     *)
(*                                                                         *)
(* Text is modelled at the level of characters: a Python str is a sequence *)
(* of one-character strings, so that substring tests, regular-expression   *)
(* matches, str.split, re.sub, int() and float() are computed rather than  *)
(* assumed.  Python's None is the empty sequence <<>> and a present value  *)
(* v is <<v>> where the two have to share a variable.                      *)
(*                                                                         *)
(* A float is modelled exactly: integer-valued floats as integers, others  *)
(* as [whole, num, den], the value whole + num/den.                        *)
(***************************************************************************)
EXTENDS Integers, Sequences, FiniteSets, TLC

VARIABLES
    \* ---- read_ICGEM_harmonics ----
    model_file,     \* argument: the path
    LMAX,           \* argument, reassigned at line 205: <<>> is None, <<k>> is k
    TIDE,           \* argument
    disk,           \* the lines of the file stored at model_file
    pc,             \* position in read_ICGEM_harmonics
    err,            \* the exception that ended the call, "" when none
    branch,         \* the branch taken by the if/elif chain of lines 107-131
    locals,         \* local names bound so far (year, month, start_day, ...)
    model_input,    \* the dictionary being built
    file_contents,  \* lines read from the file (line 194)
    opened,         \* whether open() was called (line 193)
    idx,            \* number of lines of input_data consumed by the loop of 215
    returned,       \* <<>> until the call returns, then <<model_input>>
    \* ---- legendre_polynomials ----
    lmax,           \* argument
    x,              \* argument: [scalar |-> TRUE, v |-> <<one value>>] or a 1-D array
    lpc,            \* position in legendre_polynomials
    lerr,           \* the exception that ended the call, "" when none
    nx,             \* number of points (lines 43-47), -1 before it is computed
    ptemp, pl, dpl, \* the three matrices, <<>> before allocation
    l               \* loop variable of lines 60 and 67

rvars == <<model_file, LMAX, TIDE, disk, pc, err, branch, locals, model_input,
           file_contents, opened, idx, returned>>
lvars == <<lmax, x, lpc, lerr, nx, ptemp, pl, dpl, l>>
vars == <<rvars, lvars>>

(***************************************************************************)
(* Bounds of the model                                                     *)
(***************************************************************************)
\* caller-supplied LMAX ranges over None and 0..MaxLMAX
MaxLMAX == 3
\* a file holds at most MaxDataLines lines beginning with the data flag
MaxDataLines == 2
\* legendre_polynomials: lmax ranges over -MaxNegLmax..MaxLegendreLmax
MaxLegendreLmax == 3
MaxNegLmax == 2
\* a 1-D array x holds at most MaxNx points
MaxNx == 2

(***************************************************************************)
(* Python text primitives                                                  *)
(***************************************************************************)
Digit == {"0","1","2","3","4","5","6","7","8","9"}

DigitVal(c) ==
    CASE c = "0" -> 0 [] c = "1" -> 1 [] c = "2" -> 2 [] c = "3" -> 3
      [] c = "4" -> 4 [] c = "5" -> 5 [] c = "6" -> 6 [] c = "7" -> 7
      [] c = "8" -> 8 [] c = "9" -> 9

Min(a, b) == IF a <= b THEN a ELSE b
Max(a, b) == IF a >= b THEN a ELSE b
Least(S) == CHOOSE a \in S : \A b \in S : a <= b
Greatest(S) == CHOOSE a \in S : \A b \in S : a >= b

\* s[i] (1-based), "" where there is no character
At(s, i) == IF i \in 1..Len(s) THEN s[i] ELSE ""

\* the literal lit occurs in s at position i
LitAt(s, i, lit) ==
    /\ i >= 1
    /\ i + Len(lit) - 1 <= Len(s)
    /\ SubSeq(s, i, i + Len(lit) - 1) = lit

\* Python: sub in s
Contains(sub, s) == \E i \in 1..Len(s) : LitAt(s, i, sub)

\* Python: s[lo:hi] and s[lo:] for lo, hi >= 0
PySlice(s, lo, hi) ==
    IF lo >= Min(hi, Len(s)) THEN <<>> ELSE SubSeq(s, lo + 1, Min(hi, Len(s)))
PyFrom(s, lo) == PySlice(s, lo, Len(s))

\* Python: seq[:n], n of either sign
PyUpTo(s, n) ==
    IF n >= 0 THEN PySlice(s, 0, n) ELSE PySlice(s, 0, Max(Len(s) + n, 0))

\* Python: os.path.basename
basename(p) ==
    LET slashes == {i \in 1..Len(p) : p[i] = "/"}
    IN  IF slashes = {} THEN p ELSE PyFrom(p, Greatest(slashes))

RECURSIVE DigitsVal(_)
DigitsVal(s) ==
    IF s = <<>> THEN 0 ELSE 10 * DigitsVal(SubSeq(s, 1, Len(s) - 1)) + DigitVal(s[Len(s)])

AllDigits(s) == s # <<>> /\ \A i \in 1..Len(s) : s[i] \in Digit

\* Python: int(s) for s a str: an optional sign and decimal digits.
\* <<>> stands for ValueError, <<v>> for the value.
ParseInt(s) ==
    LET signed == At(s, 1) \in {"+", "-"}
        body == IF signed THEN PyFrom(s, 1) ELSE s
    IN  IF ~AllDigits(body) THEN <<>>
        ELSE IF At(s, 1) = "-" THEN << 0 - DigitsVal(body) >> ELSE << DigitsVal(body) >>

RECURSIVE Pow10(_)
Pow10(n) == IF n <= 0 THEN 1 ELSE 10 * Pow10(n - 1)

\* Python: float(s) for the literals that denote an integer value: an
\* optional sign, decimal digits and an optional exponent e/E with a
\* non-negative power.  <<>> stands for ValueError.  Literals with a decimal
\* point or a negative power are valid floats the model has no integer for;
\* the files of the model hold none.
ParseFloat(s) ==
    LET es == {i \in 1..Len(s) : s[i] \in {"e", "E"}}
        mant == IF es = {} THEN s ELSE PySlice(s, 0, Least(es) - 1)
        expo == IF es = {} THEN <<"0">> ELSE PyFrom(s, Least(es))
        m == ParseInt(mant)
        e == ParseInt(expo)
    IN  IF m = <<>> \/ e = <<>> THEN <<>>
        ELSE IF e[1] < 0 THEN <<>>
        ELSE << m[1] * Pow10(e[1]) >>

\* Python: str.split() on blanks
RECURSIVE split(_)
split(s) ==
    IF s = <<>> THEN <<>>
    ELSE IF s[1] = " " THEN split(Tail(s))
    ELSE LET blanks == {i \in 1..Len(s) : s[i] = " "}
             stop == IF blanks = {} THEN Len(s) + 1 ELSE Least(blanks)
         IN  <<SubSeq(s, 1, stop - 1)>> \o split(PyFrom(s, stop - 1))

\* Python: re.sub('d','e',line,flags=re.IGNORECASE)
sub_d_e(line) ==
    [i \in 1..Len(line) |-> IF line[i] \in {"d", "D"} THEN "e" ELSE line[i]]

\* Python: re.match(prefix, s) for a pattern that is a literal
MatchLit(prefix, s) == LitAt(s, 1, prefix)

(***************************************************************************)
(* Literals of read_ICGEM_harmonics                                        *)
(***************************************************************************)
k_clm ==
    <<"c","l","m">>
k_slm ==
    <<"s","l","m">>
k_eclm ==
    <<"e","c","l","m">>
k_eslm ==
    <<"e","s","l","m">>
k_time ==
    <<"t","i","m","e">>
k_start ==
    <<"s","t","a","r","t">>
k_end ==
    <<"e","n","d">>
k_modelname ==
    <<"m","o","d","e","l","n","a","m","e">>
k_earth_gravity_constant ==
    <<"e","a","r","t","h","_","g","r","a","v","i","t","y","_","c","o","n","s","t","a","n","t">>
k_radius ==
    <<"r","a","d","i","u","s">>
k_max_degree ==
    <<"m","a","x","_","d","e","g","r","e","e">>
k_errors ==
    <<"e","r","r","o","r","s">>
k_norm ==
    <<"n","o","r","m">>
k_tide_system ==
    <<"t","i","d","e","_","s","y","s","t","e","m">>
tide_free ==
    <<"t","i","d","e","_","f","r","e","e">>
mean_tide ==
    <<"m","e","a","n","_","t","i","d","e">>
zero_tide ==
    <<"z","e","r","o","_","t","i","d","e">>
FLAG ==
    <<"g","f","c">>
lit_ITSG ==
    <<"I","T","S","G">>
lit_SW_ ==
    <<"S","W","_">>
lit_COSTG ==
    <<"C","O","S","T","G">>
lit_Grace_operational ==
    <<"G","r","a","c","e","_","o","p","e","r","a","t","i","o","n","a","l">>
lit_Grace2018 ==
    <<"G","r","a","c","e","2","0","1","8">>
lit_gz ==
    <<".","g","z">>
lit_gfc ==
    <<".","g","f","c">>
lit_txt ==
    <<".","t","x","t">>
lit_EGF_SHA_2 ==
    <<"_","E","G","F","_","S","H","A","_","2","_","_">>
lit_dash2 ==
    <<"-","2","_">>
lit_COSTG_field ==
    <<"_","C","O","S","T","G","_">>

\* line 196: the header keywords
header_parameters ==
    <<k_modelname, k_earth_gravity_constant, k_radius, k_max_degree,
      k_errors, k_norm, k_tide_system>>

(***************************************************************************)
(* The three filename patterns (lines 110, 122, 134), each by the match    *)
(* Python's backtracking finds: a lazy group takes the shortest text for   *)
(* which the rest of the pattern matches, (\d+) the whole run of digits.   *)
(* A match is <<>> (none) or <<record of the groups the code uses>>.       *)
(***************************************************************************)
\* end of the run of digits that starts at i (i - 1 when s[i] is no digit)
DigitRunEnd(s, i) ==
    IF At(s, i) \notin Digit THEN i - 1
    ELSE CHOOSE j \in i..Len(s) :
            /\ \A t \in i..j : s[t] \in Digit
            /\ At(s, j + 1) \notin Digit

\* (\.gz|\.gfc|\.txt) at i: the length matched, 0 when none
ExtLen(s, i) ==
    IF LitAt(s, i, lit_gz) THEN Len(lit_gz)
    ELSE IF LitAt(s, i, lit_gfc) THEN Len(lit_gfc)
    ELSE IF LitAt(s, i, lit_txt) THEN Len(lit_txt)
    ELSE 0

\* (Grace_operational|Grace2018) at i: the length matched, 0 when none
SatLen(s, i) ==
    IF LitAt(s, i, lit_Grace_operational) THEN Len(lit_Grace_operational)
    ELSE IF LitAt(s, i, lit_Grace2018) THEN Len(lit_Grace2018)
    ELSE 0

\* GRAZ, _(\d+)-(\d+)(\.gz|\.gfc|\.txt) with the "_" at j
GrazTail(s, j) ==
    LET k == DigitRunEnd(s, j + 1)
        q == DigitRunEnd(s, k + 2)
    IN  /\ At(s, j) = "_"
        /\ k >= j + 1
        /\ At(s, k + 1) = "-"
        /\ q >= k + 2
        /\ ExtLen(s, q + 1) > 0

\* GRAZ, -(Grace_operational|Grace2018)_(.*?)_... with the "-" at a: the
\* positions of the "_" that ends the third group
GrazFrom(s, a) ==
    LET n == SatLen(s, a + 1)
        b == a + 1 + n
    IN  IF At(s, a) = "-" /\ n > 0 /\ At(s, b) = "_"
        THEN {j \in (b + 1)..Len(s) : GrazTail(s, j)}
        ELSE {}

\* first match of the GRAZ pattern in s at or after position pos
GrazSearch(s, pos) ==
    LET as == {a \in pos..Len(s) : GrazFrom(s, a) # {}}
    IN  IF as = {} THEN <<>>
        ELSE LET a == Least(as)
                 j == Least(GrazFrom(s, a))
                 k == DigitRunEnd(s, j + 1)
                 q == DigitRunEnd(s, k + 2)
             IN  << [year |-> SubSeq(s, j + 1, k),
                     month |-> SubSeq(s, k + 2, q),
                     stop |-> q + ExtLen(s, q + 1)] >>

\* SWARM, the positions at which each lazy group may end
SwarmExt(s, c) == {e \in (c + 1)..Len(s) : ExtLen(s, e) > 0}
SwarmEnd(s, b) == {c \in (b + 1)..Len(s) : s[c] = "_" /\ SwarmExt(s, c) # {}}
SwarmStart(s, a) ==
    {b \in (a + Len(lit_EGF_SHA_2))..Len(s) : s[b] = "_" /\ SwarmEnd(s, b) # {}}
SwarmFrom(s, p) ==
    IF LitAt(s, p, lit_SW_)
    THEN {a \in (p + Len(lit_SW_))..Len(s) : LitAt(s, a, lit_EGF_SHA_2) /\ SwarmStart(s, a) # {}}
    ELSE {}

\* first match of the SWARM pattern in s at or after position pos
SwarmSearch(s, pos) ==
    LET ps == {p \in pos..Len(s) : SwarmFrom(s, p) # {}}
    IN  IF ps = {} THEN <<>>
        ELSE LET p == Least(ps)
                 a == Least(SwarmFrom(s, p))
                 b == Least(SwarmStart(s, a))
                 c == Least(SwarmEnd(s, b))
                 e == Least(SwarmExt(s, c))
             IN  << [start_date |-> SubSeq(s, a + Len(lit_EGF_SHA_2), b - 1),
                     end_date |-> SubSeq(s, b + 1, c - 1),
                     stop |-> e + ExtLen(s, e) - 1] >>

\* COST-G, -2_(\d+)-(\d+)_(.*?)_(COSTG)_(.*?)_(\d+)(.*?)(ext)?$ with the "-" at a
CostgFrom(s, a) ==
    LET k == DigitRunEnd(s, a + Len(lit_dash2))
        q == DigitRunEnd(s, k + 2)
    IN  /\ LitAt(s, a, lit_dash2)
        /\ k >= a + Len(lit_dash2)
        /\ At(s, k + 1) = "-"
        /\ q >= k + 2
        /\ At(s, q + 1) = "_"
        /\ \E c \in (q + 2)..Len(s) :
              /\ LitAt(s, c, lit_COSTG_field)
              /\ \E d \in (c + Len(lit_COSTG_field))..Len(s) :
                    At(s, d) = "_" /\ At(s, d + 1) \in Digit

\* first match of the COST-G pattern in s at or after position pos; the
\* pattern ends in $, so the match runs to the end of s
CostgSearch(s, pos) ==
    LET as == {a \in pos..Len(s) : CostgFrom(s, a)}
    IN  IF as = {} THEN <<>>
        ELSE LET a == Least(as)
                 k == DigitRunEnd(s, a + Len(lit_dash2))
                 q == DigitRunEnd(s, k + 2)
             IN  << [SD |-> SubSeq(s, a + Len(lit_dash2), k),
                     ED |-> SubSeq(s, k + 2, q),
                     stop |-> Len(s)] >>

\* rx.findall(s): the successive non-overlapping matches, left to right
RECURSIVE findall(_, _, _)
findall(rx, s, pos) ==
    LET m == CASE rx = "GRAZ" -> GrazSearch(s, pos)
               [] rx = "SWARM" -> SwarmSearch(s, pos)
               [] rx = "COSTG" -> CostgSearch(s, pos)
    IN  IF m = <<>> THEN <<>> ELSE m \o findall(rx, s, m[1].stop + 1)

(***************************************************************************)
(* Inputs of read_ICGEM_harmonics: paths and file contents                 *)
(***************************************************************************)
file_ITSG_2008_05 ==
    <<"I","T","S","G","-","G","r","a","c","e","2","0","1","8","_","n","9","6","_","2","0","0","8","-","0","5",".","g","f","c">>
file_ITSG_2007_02 ==
    <<"I","T","S","G","-","G","r","a","c","e","2","0","1","8","_","n","9","6","_","2","0","0","7","-","0","2",".","g","f","c">>
file_ITSG_under_SW ==
    <<"S","W","_","x","/","I","T","S","G","-","G","r","a","c","e","2","0","1","8","_","n","9","6","_","2","0","0","8","-","0","5",".","g","f","c">>
file_ITSG_malformed ==
    <<"I","T","S","G",".","g","f","c">>
file_ITSG_directory ==
    <<"I","T","S","G","/","E","G","M","2","0","0","8",".","g","f","c">>
file_SW_2013_12 ==
    <<"S","W","_","O","P","E","R","_","E","G","F","_","S","H","A","_","2","_","_","2","0","1","3","1","2","0","1","T","0","0","0","0","0","0","_","2","0","1","3","1","2","3","1","T","2","3","5","9","5","9","_","0","1","0","1",".","g","f","c">>
file_SW_undated ==
    <<"S","W","_","O","P","E","R","_","E","G","F","_","S","H","A","_","2","_","_","X","X","X","X","_","Y","Y","Y","Y","_","0","1","0","1",".","g","f","c">>
file_SW_malformed ==
    <<"S","W","_","b","a","d",".","g","f","c">>
file_COSTG_same_year ==
    <<"G","S","M","-","2","_","2","0","0","2","0","9","5","-","2","0","0","2","1","2","0","_","G","R","A","C","_","C","O","S","T","G","_","B","F","0","1","_","0","1","0","0",".","g","f","c">>
file_COSTG_next_year ==
    <<"G","S","M","-","2","_","2","0","0","3","3","5","0","-","2","0","0","4","0","1","5","_","G","R","A","C","_","C","O","S","T","G","_","B","F","0","1","_","0","1","0","0",".","g","f","c">>
file_COSTG_two_years ==
    <<"G","S","M","-","2","_","2","0","0","3","3","5","0","-","2","0","0","5","0","1","5","_","G","R","A","C","_","C","O","S","T","G","_","B","F","0","1","_","0","1","0","0",".","g","f","c">>
file_COSTG_leap ==
    <<"G","S","M","-","2","_","2","0","0","4","3","5","0","-","2","0","0","5","0","1","5","_","G","R","A","C","_","C","O","S","T","G","_","B","F","0","1","_","0","1","0","0",".","g","f","c">>
file_COSTG_malformed ==
    <<"C","O","S","T","G",".","g","f","c">>
file_ICGEM ==
    <<"E","G","M","2","0","0","8",".","g","f","c">>
line_modelname ==
    <<"m","o","d","e","l","n","a","m","e"," ","E","G","M","2","0","0","8">>
line_earth_gravity_constant ==
    <<"e","a","r","t","h","_","g","r","a","v","i","t","y","_","c","o","n","s","t","a","n","t"," ","3","9","8","6","0","0">>
line_radius ==
    <<"r","a","d","i","u","s"," ","6","3","7","8">>
line_max_degree ==
    <<"m","a","x","_","d","e","g","r","e","e"," ">>
line_errors ==
    <<"e","r","r","o","r","s"," ","f","o","r","m","a","l">>
line_norm ==
    <<"n","o","r","m"," ","f","u","l","l","y","_","n","o","r","m","a","l","i","z","e","d">>
line_tide_system ==
    <<"t","i","d","e","_","s","y","s","t","e","m"," ","t","i","d","e","_","f","r","e","e">>
line_end_of_head ==
    <<"e","n","d","_","o","f","_","h","e","a","d">>
line_normalization ==
    <<"n","o","r","m","a","l","i","z","a","t","i","o","n"," ","u","n","k","n","o","w","n">>
line_radius_alone ==
    <<"r","a","d","i","u","s">>
line_0_0 ==
    <<"g","f","c"," ","0"," ","0"," ","1"," ","0"," ","0"," ","0">>
line_2_0 ==
    <<"g","f","c"," ","2"," ","0"," ","-","4"," ","0"," ","1"," ","0">>
line_2_1 ==
    <<"g","f","c"," ","2"," ","1"," ","3","d","0"," ","2","D","0"," ","1"," ","1">>
line_1_2 ==
    <<"g","f","c"," ","1"," ","2"," ","5"," ","6"," ","1"," ","1">>
line_3_3 ==
    <<"g","f","c"," ","3"," ","3"," ","7"," ","8"," ","1"," ","1">>
line_1_neg ==
    <<"g","f","c"," ","1"," ","-","1"," ","5"," ","6"," ","1"," ","1">>
line_swarm ==
    <<"g","f","c"," ","2"," ","2"," ","9"," ","9">>
line_malformed ==
    <<"g","f","c"," ","2"," ","x"," ","1"," ","1"," ","1"," ","1">>

Paths ==
    {file_ITSG_2008_05, file_ITSG_2007_02, file_ITSG_under_SW, file_ITSG_malformed,
     file_ITSG_directory, file_SW_2013_12, file_SW_undated, file_SW_malformed, file_COSTG_same_year,
     file_COSTG_next_year, file_COSTG_two_years, file_COSTG_leap,
     file_COSTG_malformed, file_ICGEM}

\* decimal text of a natural number
RECURSIVE IntText(_)
IntText(n) ==
    LET d == CHOOSE c \in Digit : DigitVal(c) = n % 10
    IN  IF n < 10 THEN <<d>> ELSE IntText(n \div 10) \o <<d>>

\* a complete header declaring max_degree D
Header(D) ==
    <<line_modelname, line_earth_gravity_constant, line_radius,
      line_max_degree \o IntText(D), line_errors, line_norm, line_tide_system,
      line_end_of_head>>

Without(lines, line) == SelectSeq(lines, LAMBDA ln : ln # line)

DataLines ==
    {line_0_0, line_2_0, line_2_1, line_1_2, line_3_3, line_1_neg, line_swarm,
     line_malformed}

RECURSIVE SeqsUpTo(_, _)
SeqsUpTo(S, n) ==
    IF n = 0 THEN {<<>>}
    ELSE LET shorter == SeqsUpTo(S, n - 1)
         IN  shorter \cup {Append(s, e) : s \in shorter, e \in S}

DefaultData == <<line_2_0, line_2_1>>
DefaultHeader == Header(2)

\* files whose header varies
HeaderFiles ==
    {Header(D) \o DefaultData : D \in 0..MaxLMAX}
    \cup {Without(DefaultHeader, line_max_degree \o IntText(2)) \o DefaultData,
          Without(DefaultHeader, line_earth_gravity_constant) \o DefaultData,
          DefaultHeader \o <<line_normalization>> \o DefaultData,
          <<line_radius_alone>> \o DefaultHeader \o DefaultData}

\* files whose data lines vary
DataFiles == {DefaultHeader \o d : d \in SeqsUpTo(DataLines, MaxDataLines)}

\* the calls of the model: every path with one file, one path with every
\* header, and a plain, a SWARM and a GRAZ-under-SW_ path with every data section
Inputs ==
    (Paths \X {DefaultHeader \o DefaultData})
    \cup ({file_ICGEM} \X HeaderFiles)
    \cup ({file_ICGEM, file_SW_2013_12, file_ITSG_under_SW} \X DataFiles)

LMAXChoices == {<<>>} \cup {<<k>> : k \in 0..MaxLMAX}
TideChoices == {tide_free, mean_tide, zero_tide}

(***************************************************************************)
(* Numbers                                                                 *)
(***************************************************************************)
RECURSIVE GCD(_, _)
GCD(a, b) == IF b = 0 THEN a ELSE GCD(b, a % b)

\* the float whole + num/den (den > 0), in lowest terms with 0 <= num < den
Real(whole, num, den) ==
    LET r == num % den
        g == GCD(den, r)
    IN  [whole |-> whole + (num \div den), num |-> r \div g, den |-> den \div g]

RECURSIVE Sum(_)
Sum(s) == IF s = <<>> THEN 0 ELSE s[1] + Sum(Tail(s))

NeverLeapYear(year) == FALSE

\* lines 147-152 and 172-175
IsLeapYear(year) == year % 4 = 0
dpy(year) == IF IsLeapYear(year) THEN 366 ELSE 365
dpm(year) ==
    IF IsLeapYear(year)
    THEN <<31, 29, 31, 30, 31, 30, 31, 31, 30, 31, 30, 31>>
    ELSE <<31, 28, 31, 30, 31, 30, 31, 31, 30, 31, 30, 31>>

EndCyclicOneYear(start_yr, end_yr, end_day) ==
    IF end_yr > start_yr THEN end_day + dpy(start_yr) ELSE end_day

\* line 178
EndCyclic(start_yr, end_yr, end_day) == (end_yr - start_yr) * dpy(start_yr) + end_day

\* lines 162-164: the Julian date of day-of-year day of year
JulianDate(year, day) ==
    Real(367 * year - ((7 * year) \div 4)
           - ((3 * (((7 * year - 8) \div 700) + 1)) \div 4)
           + (275 \div 9) + day + 1721028,
         1, 2)

NoNegativeDimension(n) == FALSE

\* numpy.zeros raises ValueError for a negative dimension
NegativeDimension(n) == n < 0

\* numpy.zeros((n, n)), rows and columns indexed from 0
zeros(n) == [i \in 0..(n - 1) |-> [j \in 0..(n - 1) |-> 0]]

\* numpy: the position an index i selects on an axis of length n; <<>> stands
\* for IndexError
NpIndex(i, n) ==
    IF i >= 0 /\ i < n THEN <<i>>
    ELSE IF i < 0 /\ i + n >= 0 THEN <<i + n>>
    ELSE <<>>

\* the external collaborator calculate_tidal_offset(TIDE, GM, R, refell): a pure
\* function of its arguments that returns the additive C20 correction
calculate_tidal_offset(tide, GM, R, refell) ==
    IF tide = mean_tide THEN 0 - (((GM + R) % 7) + 2) ELSE 0 - (((GM + R) % 7) + 1)

(***************************************************************************)
(* read_ICGEM_harmonics                                                    *)
(***************************************************************************)
Put(d, k, v) == (k :> v) @@ d

Raise(e) == pc' = "raised" /\ err' = e

\* lines 107, 119, 131: the branch of the if/elif chain a path takes
Dispatch(path) ==
    IF Contains(lit_ITSG, path) THEN "GRAZ"
    ELSE IF Contains(lit_SW_, path) THEN "SWARM"
    ELSE IF Contains(lit_COSTG, path) THEN "COSTG"
    ELSE "ICGEM"

\* lines 114, 125, 137: the names bound from the groups of match m
Groups(rx, m) ==
    CASE rx = "GRAZ" -> [year |-> m.year, month |-> m.month]
      [] rx = "SWARM" -> [start_date |-> m.start_date, end_date |-> m.end_date]
      [] rx = "COSTG" -> [SD |-> m.SD, ED |-> m.ED]

MatchFilenameWithFallback ==
    /\ pc = "dispatch"
    /\ LET found == IF Dispatch(model_file) = "ICGEM" THEN <<>>
                    ELSE findall(Dispatch(model_file), basename(model_file), 1)
       IN  IF found = <<>>
           THEN branch' = "ICGEM" /\ pc' = "temporal" /\ UNCHANGED <<err, locals>>
           ELSE /\ branch' = Dispatch(model_file)
                /\ locals' = Groups(Dispatch(model_file), found[Len(found)])
                /\ pc' = "convert"
                /\ UNCHANGED err
    /\ UNCHANGED <<model_file, LMAX, TIDE, disk, model_input, file_contents,
                   opened, idx, returned>>
    /\ UNCHANGED lvars

\* lines 107-114, 119-125, 131-137: dispatch on the path, and the groups of
\* the last match (list.pop) of the branch's pattern in the base name
MatchFilename ==
    /\ pc = "dispatch"
    /\ branch' = Dispatch(model_file)
    /\ IF Dispatch(model_file) = "ICGEM"
       THEN pc' = "temporal" /\ UNCHANGED <<err, locals>>
       ELSE LET found == findall(Dispatch(model_file), basename(model_file), 1)
            IN  IF found = <<>>
                THEN Raise("IndexError") /\ UNCHANGED locals
                ELSE /\ locals' = Groups(Dispatch(model_file), found[Len(found)])
                     /\ pc' = "convert"
                     /\ UNCHANGED err
    /\ UNCHANGED <<model_file, LMAX, TIDE, disk, model_input, file_contents,
                   opened, idx, returned>>
    /\ UNCHANGED lvars

\* lines 117, 128-129, 139-142: the groups converted to numbers
ConvertFields ==
    /\ pc = "convert"
    /\ CASE branch = "GRAZ" ->
               /\ locals' = [year |-> ParseInt(locals.year)[1],
                             month |-> ParseInt(locals.month)[1]]
               /\ pc' = "temporal" /\ UNCHANGED err
         [] branch = "SWARM" ->
               LET year == ParseInt(PySlice(locals.start_date, 0, 4))
                   month == ParseInt(PySlice(locals.start_date, 4, 6))
               IN  IF year = <<>> \/ month = <<>>
                   THEN Raise("ValueError") /\ UNCHANGED locals
                   ELSE /\ locals' = [start_date |-> locals.start_date,
                                      end_date |-> locals.end_date,
                                      year |-> year[1], month |-> month[1]]
                        /\ pc' = "temporal" /\ UNCHANGED err
         [] branch = "COSTG" ->
               LET start_yr == ParseFloat(PySlice(locals.SD, 0, 4))
                   end_yr == ParseFloat(PySlice(locals.ED, 0, 4))
                   start_day == ParseFloat(PyFrom(locals.SD, 4))
                   end_day == ParseFloat(PyFrom(locals.ED, 4))
               IN  IF <<>> \in {start_yr, end_yr, start_day, end_day}
                   THEN Raise("ValueError") /\ UNCHANGED locals
                   ELSE /\ locals' = [SD |-> locals.SD, ED |-> locals.ED,
                                      start_yr |-> start_yr[1], end_yr |-> end_yr[1],
                                      start_day |-> start_day[1], end_day |-> end_day[1]]
                        /\ pc' = "temporal" /\ UNCHANGED err
    /\ UNCHANGED <<model_file, LMAX, TIDE, disk, branch, model_input, file_contents,
                   opened, idx, returned>>
    /\ UNCHANGED lvars

\* lines 144-190: mid-period time and Julian start and end dates
TemporalMetadata ==
    /\ pc = "temporal"
    /\ IF Contains(lit_ITSG, model_file) \/ Contains(lit_SW_, model_file) THEN
           LET year == locals.year
               month == locals.month
               start_day == Sum(PyUpTo(dpm(year), month - 1)) + 1
               end_day == Sum(PyUpTo(dpm(year), month))
           IN  /\ locals' = [v \in {"dpy", "start_day", "end_day"} |->
                                CASE v = "dpy" -> dpy(year)
                                  [] v = "start_day" -> start_day
                                  [] v = "end_day" -> end_day] @@ locals
               /\ model_input' =
                      Put(Put(Put(model_input,
                          k_time, Real(year, start_day + end_day, 2 * dpy(year))),
                          k_start, JulianDate(year, start_day)),
                          k_end, JulianDate(year, end_day))
       ELSE IF Contains(lit_COSTG, model_file) THEN
           LET start_yr == locals.start_yr
               end_yr == locals.end_yr
               start_day == locals.start_day
               end_day == locals.end_day
               end_cyclic == EndCyclic(start_yr, end_yr, end_day)
           IN  /\ locals' = [dpy |-> dpy(start_yr), end_cyclic |-> end_cyclic] @@ locals
               /\ model_input' =
                      Put(Put(Put(model_input,
                          k_time, Real(start_yr, start_day + end_cyclic, 2 * dpy(start_yr))),
                          k_start, JulianDate(start_yr, start_day)),
                          k_end, JulianDate(end_yr, end_day))
       ELSE UNCHANGED <<locals, model_input>>
    /\ pc' = "open"
    /\ UNCHANGED <<model_file, LMAX, TIDE, disk, err, branch, file_contents,
                   opened, idx, returned>>
    /\ UNCHANGED lvars

\* lines 192-194: the whole file is read at once
ReadFile ==
    /\ pc = "open"
    /\ opened' = TRUE
    /\ file_contents' = disk
    /\ pc' = "header"
    /\ UNCHANGED <<model_file, LMAX, TIDE, disk, err, branch, locals, model_input,
                   idx, returned>>
    /\ UNCHANGED lvars

\* line 199: re.match('(modelname|...|tide_system)', l)
IsHeaderLine(ln) == \E i \in 1..Len(header_parameters) : MatchLit(header_parameters[i], ln)

\* lines 200-203 over the lines that remain: the dictionary, and the
\* exception ("" when none) that ended the loop
RECURSIVE ParseHeaderLines(_, _)
ParseHeaderLines(lines, d) ==
    IF lines = <<>> THEN [dict |-> d, err |-> ""]
    ELSE LET line_contents == split(lines[1])
         IN  IF Len(line_contents) < 2 THEN [dict |-> d, err |-> "IndexError"]
             ELSE ParseHeaderLines(Tail(lines), Put(d, line_contents[1], line_contents[2]))

\* lines 195-203
ParseHeader ==
    /\ pc = "header"
    /\ LET header == SelectSeq(file_contents, IsHeaderLine)
           r == ParseHeaderLines(header, model_input)
       IN  /\ model_input' = r.dict
           /\ IF r.err = "" THEN pc' = "truncate" /\ UNCHANGED err ELSE Raise(r.err)
    /\ UNCHANGED <<model_file, LMAX, TIDE, disk, branch, locals, file_contents,
                   opened, idx, returned>>
    /\ UNCHANGED lvars

\* Python: not LMAX
Falsy(v) == v = <<>> \/ v[1] = 0

\* lines 204-211: the truncation degree and the zero matrices
SetTruncation ==
    /\ pc = "truncate"
    /\ LET declared == IF k_max_degree \in DOMAIN model_input
                       THEN ParseInt(model_input[k_max_degree]) ELSE <<>>
           degree == IF Falsy(LMAX) THEN declared ELSE LMAX
       IN  IF Falsy(LMAX) /\ k_max_degree \notin DOMAIN model_input THEN
               Raise("KeyError") /\ UNCHANGED <<LMAX, model_input>>
           ELSE IF degree = <<>> THEN
               Raise("ValueError") /\ UNCHANGED <<LMAX, model_input>>
           ELSE IF NegativeDimension(degree[1] + 1) THEN
               Raise("ValueError") /\ LMAX' = degree /\ UNCHANGED model_input
           ELSE
               /\ LMAX' = degree
               /\ model_input' =
                      LET both == Put(Put(model_input, k_clm, zeros(degree[1] + 1)),
                                      k_slm, zeros(degree[1] + 1))
                      IN  IF ~Contains(lit_SW_, model_file)
                          THEN Put(Put(both, k_eclm, zeros(degree[1] + 1)),
                                   k_eslm, zeros(degree[1] + 1))
                          ELSE both
               /\ pc' = "data"
               /\ UNCHANGED err
    /\ idx' = 0
    /\ UNCHANGED <<model_file, TIDE, disk, branch, locals, file_contents, opened,
                   returned>>
    /\ UNCHANGED lvars

\* line 213
input_data == SelectSeq(file_contents, LAMBDA ln : MatchLit(FLAG, ln))

\* lines 223-227, one store model_input[key][l1,m1] = np.float(line_contents[at]),
\* applied to the result so far
Store(r, key, l1, m1, line_contents, at) ==
    IF r.err # "" THEN r
    ELSE IF Len(line_contents) < at + 1 THEN [dict |-> r.dict, err |-> "IndexError"]
    ELSE LET v == ParseFloat(line_contents[at + 1])
             n == Cardinality(DOMAIN r.dict[key])
             i == NpIndex(l1, n)
             j == NpIndex(m1, n)
         IN  IF v = <<>> THEN [dict |-> r.dict, err |-> "ValueError"]
             ELSE IF i = <<>> \/ j = <<>> THEN [dict |-> r.dict, err |-> "IndexError"]
             ELSE [dict |-> [r.dict EXCEPT ![key][i[1]][j[1]] = v[1]], err |-> ""]

\* lines 216-227 for one data line
ParseLine(ln, d, trunc, swarm) ==
    LET line_contents == split(sub_d_e(ln))
        l1 == IF Len(line_contents) < 2 THEN <<>> ELSE ParseInt(line_contents[2])
        m1 == IF Len(line_contents) < 3 THEN <<>> ELSE ParseInt(line_contents[3])
        r0 == [dict |-> d, err |-> ""]
    IN  IF Len(line_contents) < 2 THEN [dict |-> d, err |-> "IndexError"]
        ELSE IF l1 = <<>> THEN [dict |-> d, err |-> "ValueError"]
        ELSE IF Len(line_contents) < 3 THEN [dict |-> d, err |-> "IndexError"]
        ELSE IF m1 = <<>> THEN [dict |-> d, err |-> "ValueError"]
        ELSE IF l1[1] <= trunc /\ m1[1] <= trunc THEN
            LET r1 == Store(r0, k_clm, l1[1], m1[1], line_contents, 3)
                r2 == Store(r1, k_slm, l1[1], m1[1], line_contents, 4)
            IN  IF swarm THEN r2
                ELSE Store(Store(r2, k_eclm, l1[1], m1[1], line_contents, 5),
                           k_eslm, l1[1], m1[1], line_contents, 6)
        ELSE r0

\* lines 215-227: one iteration of the loop over input_data
ParseDataLine ==
    /\ pc = "data"
    /\ idx < Len(input_data)
    /\ LET r == ParseLine(input_data[idx + 1], model_input, LMAX[1],
                          Contains(lit_SW_, model_file))
       IN  /\ model_input' = r.dict
           /\ IF r.err = "" THEN UNCHANGED <<pc, err>> ELSE Raise(r.err)
    /\ idx' = idx + 1
    /\ UNCHANGED <<model_file, LMAX, TIDE, disk, branch, locals, file_contents,
                   opened, returned>>
    /\ UNCHANGED lvars

\* line 215: the loop ends when input_data is exhausted
EndOfData ==
    /\ pc = "data"
    /\ idx = Len(input_data)
    /\ pc' = "tide"
    /\ UNCHANGED <<model_file, LMAX, TIDE, disk, err, branch, locals, model_input,
                   file_contents, opened, idx, returned>>
    /\ UNCHANGED lvars

\* lines 228-233
TideCorrection ==
    /\ pc = "tide"
    /\ IF TIDE \in {mean_tide, zero_tide} THEN
           LET set == Put(model_input, k_tide_system, TIDE)
               GM == IF k_earth_gravity_constant \in DOMAIN set
                     THEN ParseFloat(set[k_earth_gravity_constant]) ELSE <<>>
               R == IF k_radius \in DOMAIN set THEN ParseFloat(set[k_radius]) ELSE <<>>
               n == Cardinality(DOMAIN set[k_clm])
           IN  IF k_earth_gravity_constant \notin DOMAIN set THEN
                   Raise("KeyError") /\ model_input' = set
               ELSE IF GM = <<>> THEN
                   Raise("ValueError") /\ model_input' = set
               ELSE IF k_radius \notin DOMAIN set THEN
                   Raise("KeyError") /\ model_input' = set
               ELSE IF R = <<>> THEN
                   Raise("ValueError") /\ model_input' = set
               ELSE IF NpIndex(2, n) = <<>> \/ NpIndex(0, n) = <<>> THEN
                   Raise("IndexError") /\ model_input' = set
               ELSE
                   /\ model_input' =
                          [set EXCEPT ![k_clm][2][0] =
                              @ + calculate_tidal_offset(TIDE, GM[1], R[1], "WGS84")]
                   /\ pc' = "return"
                   /\ UNCHANGED err
       ELSE /\ pc' = "return"
            /\ UNCHANGED <<err, model_input>>
    /\ UNCHANGED <<model_file, LMAX, TIDE, disk, branch, locals, file_contents,
                   opened, idx, returned>>
    /\ UNCHANGED lvars

\* line 235
Return ==
    /\ pc = "return"
    /\ returned' = <<model_input>>
    /\ pc' = "done"
    /\ UNCHANGED <<model_file, LMAX, TIDE, disk, err, branch, locals, model_input,
                   file_contents, opened, idx>>
    /\ UNCHANGED lvars

\* the state on entry to read_ICGEM_harmonics (line 105)
ReaderInit ==
    /\ \E inp \in Inputs : model_file = inp[1] /\ disk = inp[2]
    /\ LMAX \in LMAXChoices
    /\ TIDE \in TideChoices
    /\ pc = "dispatch"
    /\ err = ""
    /\ branch = ""
    /\ locals = <<>>
    /\ model_input = <<>>
    /\ file_contents = <<>>
    /\ opened = FALSE
    /\ idx = 0
    /\ returned = <<>>

\* read_ICGEM_harmonics is not called
ReaderIdle ==
    /\ model_file = <<>> /\ disk = <<>> /\ LMAX = <<>> /\ TIDE = tide_free
    /\ pc = "idle" /\ err = "" /\ branch = "" /\ locals = <<>>
    /\ model_input = <<>> /\ file_contents = <<>> /\ opened = FALSE
    /\ idx = 0 /\ returned = <<>>

(***************************************************************************)
(* legendre_polynomials.  A float is held exactly as c * sqrt(r), c a      *)
(* rational [n, d] in lowest terms and r a square-free positive integer;   *)
(* d = 0 marks the non-finite results of a division by zero.               *)
(***************************************************************************)
Abs(a) == IF a < 0 THEN 0 - a ELSE a

Rat(n, d) ==
    IF d = 0 THEN [n |-> 1, d |-> 0]
    ELSE LET g == GCD(Abs(n), Abs(d))
             s == IF d < 0 THEN 0 - 1 ELSE 1
         IN  [n |-> (s * n) \div g, d |-> (s * d) \div g]

RMul(a, b) == IF a.d = 0 \/ b.d = 0 THEN Rat(1, 0) ELSE Rat(a.n * b.n, a.d * b.d)
RSub(a, b) == IF a.d = 0 \/ b.d = 0 THEN Rat(1, 0) ELSE Rat(a.n * b.d - b.n * a.d, a.d * b.d)
RDiv(a, b) == IF a.d = 0 \/ b.d = 0 THEN Rat(1, 0) ELSE Rat(a.n * b.d, a.d * b.n)

\* the largest k with k * k dividing m (m >= 1)
SquarePart(m) == Greatest({k \in 1..m : k * k <= m /\ m % (k * k) = 0})

Surd(c, r) == [c |-> c, r |-> r]
Num(c) == Surd(c, 1)

\* np.sqrt of a non-negative rational
SqrtOf(q) ==
    IF q.d = 0 THEN Surd(Rat(1, 0), 1)
    ELSE IF q.n = 0 THEN Surd(Rat(0, 1), 1)
    ELSE LET m == q.n * q.d
             k == SquarePart(m)
         IN  Surd(Rat(k, q.d), m \div (k * k))

SMul(a, b) ==
    IF a.c.d = 0 \/ b.c.d = 0 THEN Surd(Rat(1, 0), 1)
    ELSE IF a.c.n = 0 \/ b.c.n = 0 THEN Surd(Rat(0, 1), 1)
    ELSE LET m == a.r * b.r
             k == SquarePart(m)
         IN  Surd(RMul(RMul(a.c, b.c), Rat(k, 1)), m \div (k * k))

\* 1.0 / a
SInv(a) ==
    IF a.c.d = 0 \/ a.c.n = 0 THEN Surd(Rat(1, 0), 1)
    ELSE Surd(RDiv(Rat(1, 1), RMul(a.c, Rat(a.r, 1))), a.r)

\* a - b; the terms of lines 61 and 69 share their radical
SSub(a, b) ==
    IF a.c.d = 0 \/ b.c.d = 0 THEN Surd(Rat(1, 0), 1)
    ELSE IF b.c.n = 0 THEN a
    ELSE IF a.c.n = 0 THEN Surd(RSub(a.c, b.c), b.r)
    ELSE Surd(RSub(a.c, b.c), a.r)

\* np.zeros((rows, cols))
zeros2(rows, cols) == [i \in 0..(rows - 1) |-> [j \in 0..(cols - 1) |-> Num(Rat(0, 1))]]

\* the value of x at column j: a scalar is broadcast
xAt(j) == IF x.scalar THEN x.v[1] ELSE x.v[j + 1]

\* line 61 at column j
RecurrenceTerm(j) ==
    SSub(SMul(SMul(Num(Rat(2 * l - 1, l)), Num(xAt(j))), ptemp[l - 1][j]),
         SMul(Num(Rat(l - 1, l)), ptemp[l - 2][j]))

\* line 63 at column j, given the new ptemp[l][j]
Normalized(p) == SMul(SqrtOf(Rat(2 * l + 1, 1)), p)

\* line 68
fl == SqrtOf(Rat(l * l * (2 * l + 1), 2 * l - 1))

\* line 69 at column j
DerivativeTerm(j) ==
    SMul(SInv(SqrtOf(RSub(Rat(1, 1), RMul(xAt(j), xAt(j))))),
         SSub(SMul(SMul(Num(Rat(l, 1)), Num(xAt(j))), pl[l][j]),
              SMul(fl, pl[l - 1][j])))

LRaise(e) == lpc' = "raised" /\ lerr' = e

\* lines 43-48
Size ==
    /\ lpc = "size"
    /\ nx' = IF x.scalar THEN 1 ELSE Len(x.v)
    /\ lpc' = "alloc"
    /\ UNCHANGED <<lmax, x, lerr, ptemp, pl, dpl, l>>
    /\ UNCHANGED rvars

\* lines 50-52
Allocate ==
    /\ lpc = "alloc"
    /\ IF NegativeDimension(lmax + 1)
       THEN LRaise("ValueError") /\ UNCHANGED <<pl, ptemp>>
       ELSE /\ pl' = zeros2(lmax + 1, nx)
            /\ ptemp' = zeros2(lmax + 1, nx)
            /\ lpc' = "init"
            /\ UNCHANGED lerr
    /\ UNCHANGED <<lmax, x, nx, dpl, l>>
    /\ UNCHANGED rvars

\* a row index within a matrix of the given number of rows
HasRow(i, rows) == i >= 0 /\ i < rows

\* lines 55-59
Initialize ==
    /\ lpc = "init"
    /\ IF ~HasRow(0, lmax + 1) \/ ~HasRow(1, lmax + 1)
       THEN /\ LRaise("IndexError")
            /\ ptemp' = IF HasRow(0, lmax + 1)
                        THEN [ptemp EXCEPT ![0] = [j \in 0..(nx - 1) |-> Num(Rat(1, 1))]]
                        ELSE ptemp
            /\ UNCHANGED pl
       ELSE LET pt == [ptemp EXCEPT ![0] = [j \in 0..(nx - 1) |-> Num(Rat(1, 1))],
                                    ![1] = [j \in 0..(nx - 1) |-> Num(xAt(j))]]
            IN  /\ ptemp' = pt
                /\ pl' = [pl EXCEPT ![0] = pt[0],
                                    ![1] = [j \in 0..(nx - 1) |->
                                               SMul(SqrtOf(Rat(3, 1)), pt[1][j])]]
                /\ lpc' = "recur"
                /\ UNCHANGED lerr
    /\ l' = 2
    /\ UNCHANGED <<lmax, x, nx, dpl>>
    /\ UNCHANGED rvars

\* lines 60-63: one iteration
Recurrence ==
    /\ lpc = "recur"
    /\ l <= lmax
    /\ LET row == [j \in 0..(nx - 1) |-> RecurrenceTerm(j)]
       IN  /\ ptemp' = [ptemp EXCEPT ![l] = row]
           /\ pl' = [pl EXCEPT ![l] = [j \in 0..(nx - 1) |-> Normalized(row[j])]]
    /\ l' = l + 1
    /\ UNCHANGED <<lmax, x, lpc, lerr, nx, dpl>>
    /\ UNCHANGED rvars

\* line 66, when the loop of line 60 is exhausted
AllocateDerivative ==
    /\ lpc = "recur"
    /\ l > lmax
    /\ dpl' = zeros2(lmax + 1, nx)
    /\ l' = 1
    /\ lpc' = "deriv"
    /\ UNCHANGED <<lmax, x, lerr, nx, ptemp, pl>>
    /\ UNCHANGED rvars

\* lines 67-69: one iteration
Derivative ==
    /\ lpc = "deriv"
    /\ l <= lmax
    /\ dpl' = [dpl EXCEPT ![l] = [j \in 0..(nx - 1) |-> DerivativeTerm(j)]]
    /\ l' = l + 1
    /\ UNCHANGED <<lmax, x, lpc, lerr, nx, ptemp, pl>>
    /\ UNCHANGED rvars

\* line 72, when the loop of line 67 is exhausted
ReturnPolynomials ==
    /\ lpc = "deriv"
    /\ l > lmax
    /\ lpc' = "done"
    /\ UNCHANGED <<lmax, x, lerr, nx, ptemp, pl, dpl, l>>
    /\ UNCHANGED rvars

\* evaluation points: 0, 1/2 and the pole 1
XValues == {Rat(0, 1), Rat(1, 2), Rat(1, 1)}

XChoices ==
    {[scalar |-> TRUE, v |-> <<q>>] : q \in XValues}
    \cup {[scalar |-> FALSE, v |-> a] : a \in SeqsUpTo(XValues, MaxNx)}

\* the state on entry to legendre_polynomials (line 41)
LegendreInit ==
    /\ lmax \in (0 - MaxNegLmax)..MaxLegendreLmax
    /\ x \in XChoices
    /\ lpc = "size"
    /\ lerr = ""
    /\ nx = 0 - 1
    /\ ptemp = <<>>
    /\ pl = <<>>
    /\ dpl = <<>>
    /\ l = 0

\* legendre_polynomials is not called
LegendreIdle ==
    /\ lmax = 0 /\ x = [scalar |-> TRUE, v |-> <<Rat(0, 1)>>]
    /\ lpc = "idle" /\ lerr = "" /\ nx = 0 - 1
    /\ ptemp = <<>> /\ pl = <<>> /\ dpl = <<>> /\ l = 0

(***************************************************************************)
(* Specifications                                                          *)
(***************************************************************************)
Init == ReaderInit /\ LegendreIdle

Next ==
    \/ MatchFilename
    \/ ConvertFields
    \/ TemporalMetadata
    \/ ReadFile
    \/ ParseHeader
    \/ SetTruncation
    \/ ParseDataLine
    \/ EndOfData
    \/ TideCorrection
    \/ Return

Spec == Init /\ [][Next]_vars

InitLegendre == LegendreInit /\ ReaderIdle

NextLegendre ==
    \/ Size
    \/ Allocate
    \/ Initialize
    \/ Recurrence
    \/ AllocateDerivative
    \/ Derivative
    \/ ReturnPolynomials

SpecLegendre == InitLegendre /\ [][NextLegendre]_vars

(***************************************************************************)
(* Properties                                                              *)
(***************************************************************************)
Matrices == {k_clm, k_slm, k_eclm, k_eslm}

\* m is an n x n matrix
IsSquare(m, n) ==
    /\ DOMAIN m = 0..(n - 1)
    /\ \A i \in DOMAIN m : DOMAIN m[i] = 0..(n - 1)

\* m is a matrix of the given numbers of rows and columns
HasShape(m, rows, cols) ==
    /\ DOMAIN m = 0..(rows - 1)
    /\ \A i \in DOMAIN m : DOMAIN m[i] = 0..(cols - 1)

\* C1: when the header declares max_degree D, the matrices allocated by lines
\* 204-211 are (L+1) x (L+1), L being the caller's LMAX for every supplied
\* 0 <= LMAX < D (0 included) and D when the caller passes None.
C1_ShapeFollowsCallerLMAX ==
    [][(/\ pc = "truncate"
        /\ k_max_degree \in DOMAIN model_input
        /\ ParseInt(model_input[k_max_degree]) # <<>>
        /\ \/ LMAX = <<>>
           \/ 0 <= LMAX[1] /\ LMAX[1] < ParseInt(model_input[k_max_degree])[1])
       => LET D == ParseInt(model_input[k_max_degree])[1]
              L == IF LMAX = <<>> THEN D ELSE LMAX[1]
          IN  /\ pc' = "data"
              /\ {k_clm, k_slm} \subseteq DOMAIN model_input'
              /\ \A k \in Matrices \cap DOMAIN model_input' :
                    IsSquare(model_input'[k], L + 1)]_vars

\* C2: every coefficient matrix of a returned record is lower-triangular:
\* each entry [l, m] with m > l is zero, whatever data lines the file holds.
C2_ReturnedMatricesLowerTriangular ==
    returned # <<>> =>
        \A k \in Matrices \cap DOMAIN returned[1] :
            \A i \in DOMAIN returned[1][k] :
                \A j \in DOMAIN returned[1][k][i] :
                    j > i => returned[1][k][i][j] = 0

\* C3: once the data lines are parsed (the record a tide_free read returns),
\* a read with TIDE mean_tide or zero_tide succeeds and changes that record
\* in exactly two places, clm[2,0] (by the collaborator's offset) and
\* tide_system (set to TIDE); a tide_free read changes nothing.  Stated for
\* files whose header carries earth_gravity_constant and radius.
C3_TideCorrectionAlwaysSucceeds ==
    [][(/\ pc = "tide"
        /\ k_earth_gravity_constant \in DOMAIN model_input
        /\ k_radius \in DOMAIN model_input)
       => /\ pc' = "return"
          /\ IF TIDE \in {mean_tide, zero_tide}
             THEN model_input' =
                    [Put(model_input, k_tide_system, TIDE) EXCEPT ![k_clm][2][0] =
                        @ + calculate_tidal_offset(TIDE,
                              ParseFloat(model_input[k_earth_gravity_constant])[1],
                              ParseFloat(model_input[k_radius])[1], "WGS84")]
             ELSE model_input' = model_input]_vars

\* C4: the returned record lacks eclm and eslm if and only if the branch the
\* dispatch selected is SWARM.
C4_ErrorMatricesAbsentIffSwarm ==
    returned # <<>> =>
        ((k_eclm \notin DOMAIN returned[1] /\ k_eslm \notin DOMAIN returned[1])
            <=> branch = "SWARM")

\* lines 144-190 have run: the file is about to be opened, or has been
AfterTemporal == pc = "open" \/ opened

\* C5 as stated: ITSG-Grace2018_n96_2008-05.gfc gives year 2008, month 5,
\* start_day 121, end_day 151 in a 365-day year and time 2008 + 136/365.
C5_NonLeap2008 ==
    (model_file = file_ITSG_2008_05 /\ AfterTemporal) =>
        /\ locals.year = 2008 /\ locals.month = 5
        /\ locals.start_day = 121 /\ locals.end_day = 151
        /\ locals.dpy = 365
        /\ model_input[k_time] = Real(2008, 136, 365)

\* C5 as amended: ITSG-Grace2018_n96_2008-05.gfc gives year 2008, month 5,
\* start_day 122, end_day 152 in a 366-day (leap) year, time 2008 + 137/366,
\* and Julian dates 2454587.5 (day 122 of 2008) and 2454617.5 (day 152).
C5_Leap2008 ==
    (model_file = file_ITSG_2008_05 /\ AfterTemporal) =>
        /\ locals.year = 2008 /\ locals.month = 5
        /\ locals.start_day = 122 /\ locals.end_day = 152
        /\ locals.dpy = 366
        /\ model_input[k_time] = [whole |-> 2008, num |-> 137, den |-> 366]
        /\ model_input[k_start] = [whole |-> 2454587, num |-> 1, den |-> 2]
        /\ model_input[k_end] = [whole |-> 2454617, num |-> 1, den |-> 2]

C5_Witness == model_file = file_ITSG_2008_05 /\ pc = "done"

Points == IF x.scalar THEN 1 ELSE Len(x.v)

\* C6: for every lmax >= 0 (0 included) and x a scalar or a 1-D array, the
\* call returns and pl and dpl have shape (lmax+1, number of points).
C6_ReturnsForEveryNonNegativeLmax ==
    (lmax >= 0 /\ lpc \in {"done", "raised"}) =>
        /\ lpc = "done"
        /\ HasShape(pl, lmax + 1, Points)
        /\ HasShape(dpl, lmax + 1, Points)

\* C7 as stated: for every negative lmax the call returns matrices with no
\* degree rows instead of ending in an error.
C7_NegativeLmaxReturnsEmpty ==
    (lmax < 0 /\ lpc \in {"done", "raised"}) =>
        /\ lpc = "done"
        /\ DOMAIN pl = {}
        /\ DOMAIN dpl = {}

\* C7 as amended: no range check stops a negative lmax, and the call never
\* returns for one: it ends in the IndexError of the store into row 0 when
\* lmax = -1 and in the ValueError of the allocation when lmax < -1.
C7_NegativeLmaxRaises ==
    lmax < 0 =>
        /\ lpc \in {"size", "alloc", "init", "raised"}
        /\ lpc = "raised" =>
              lerr = (IF lmax = 0 - 1 THEN "IndexError" ELSE "ValueError")
        /\ dpl = <<>>

C7_Witness == lmax < 0 - 1 /\ lpc = "raised"

\* C8: when the path contains a trigger but the base name does not match the
\* pattern of the branch the first trigger selects, the call ends in an
\* uncaught IndexError: the branch stays the selected one, the file is never
\* opened or read, and nothing is returned.
C8_NoFallbackOnMismatch ==
    (/\ pc # "dispatch"
     /\ Dispatch(model_file) # "ICGEM"
     /\ findall(Dispatch(model_file), basename(model_file), 1) = <<>>)
    => /\ pc = "raised"
       /\ err = "IndexError"
       /\ branch = Dispatch(model_file)
       /\ ~opened
       /\ file_contents = <<>>
       /\ model_input = <<>>
       /\ returned = <<>>

C8_Witness ==
    /\ model_file = file_ITSG_directory
    /\ pc = "raised"
    /\ err = "IndexError"

\* C9: every key the header parse adds to the record is one of the seven
\* header keywords.
C9_HeaderKeysAreKeywords ==
    [][pc = "header" =>
        \A k \in DOMAIN model_input' \ DOMAIN model_input :
            \E i \in 1..Len(header_parameters) : k = header_parameters[i]]_vars

\* C10 as stated: on the COST-G path the cyclic end day is end_day when the
\* years agree and end_day + days_per_year(start_yr) when end_yr exceeds
\* start_yr.
C10_CyclicAddsOneYear ==
    (branch = "COSTG" /\ AfterTemporal) =>
        locals.end_cyclic =
            (IF locals.end_yr > locals.start_yr
             THEN locals.end_day + (IF locals.start_yr % 4 = 0 THEN 366 ELSE 365)
             ELSE locals.end_day)

\* C10 as amended: on the COST-G path the cyclic end day is
\* end_day + (end_yr - start_yr) * days_per_year(start_yr), which is end_day
\* when the years agree and end_day + days_per_year(start_yr) when end_yr is
\* start_yr + 1; time is start_yr + ((start_day + cyclic end day)/2) /
\* days_per_year(start_yr); the Julian dates are those of the literal
\* (start_yr, start_day) and (end_yr, end_day).  For 2003350-2004015 these
\* are 380, 2004.0, 2452989.5 and 2453019.5.
C10_CyclicAddsEveryYear ==
    (branch = "COSTG" /\ AfterTemporal) =>
        LET days == IF locals.start_yr % 4 = 0 THEN 366 ELSE 365
        IN  /\ locals.end_cyclic =
                  locals.end_day + (locals.end_yr - locals.start_yr) * days
            /\ model_input[k_time] =
                  Real(locals.start_yr, locals.start_day + locals.end_cyclic, 2 * days)
            /\ model_input[k_start] = JulianDate(locals.start_yr, locals.start_day)
            /\ model_input[k_end] = JulianDate(locals.end_yr, locals.end_day)
            /\ model_file = file_COSTG_next_year =>
                  /\ locals.start_yr = 2003 /\ locals.start_day = 350
                  /\ locals.end_yr = 2004 /\ locals.end_day = 15
                  /\ locals.end_cyclic = 380
                  /\ model_input[k_time] = [whole |-> 2004, num |-> 0, den |-> 1]
                  /\ model_input[k_start] = [whole |-> 2452989, num |-> 1, den |-> 2]
                  /\ model_input[k_end] = [whole |-> 2453019, num |-> 1, den |-> 2]

C10_Witness == model_file = file_COSTG_two_years /\ pc = "done"

====
